---- MODULE Spec2Model ----
(***************************************************************************)
(* Model of the rule-sequencing engine, core/rulemanager.py (RuleManager). *)
(*                                                                         *)
(* Python values: None is the string "None"; an optional list is <<>> for  *)
(* None and <<l>> for the list l; a dict is a function on its keys, so a   *)
(* missing key is a name outside DOMAIN.  A module is named by a string    *)
(* and its attributes are given by Attr.                                   *)
(***************************************************************************)
EXTENDS Integers, Sequences, FiniteSets, TLC

\* ------------------------------------------------------------------ bounds
\* Largest number of items handed to one sequence() call.
MaxItems == 2

\* Last year of the SDS day files studied, and the longest chain of
\* next / previous accesses followed from one file.
MaxYear == 2004
MaxSteps == 2

\* Largest N passed to collectFromPastDays, and the largest PSD value (dB)
\* studied; the smallest, LeastPSD, lies as far below -255 as MaxPSD lies
\* above 100.
MaxDays == 3
MaxPSD == 110
LeastPSD == -(MaxPSD + 155)

\* --------------------------------------------------------------- constants
\* config["DEFAULT_RULE_TIMEOUT"], seconds.
DEFAULT_RULE_TIMEOUT == 10

None == "None"

\* ------------------------------------------------- modules handed to loadRules
\* The objects a caller can pass as ruleModule / conditionModule.  "shared" is
\* one module object holding both the rule and the condition functions.
RuleFunctions ==
  {"passRule", "exceptionRule", "timeoutRule", "optionRule", "assertRule",
   "socketRule", "psdRule", "slowRule", "slowExceptionRule",
   "quarantineRawFileRule"}

ConditionFunctions ==
  {"trueCondition", "falseCondition", "exceptionCondition", "optionCondition",
   "assertCondition", "slowCondition"}

\* Module attributes that are not functions (sdsrules.py binds `logger`).
DataAttributes == {"logger"}

RuleModules == {"testrules", "shared"}
ConditionModules == {"testconditions", "shared"}

\* getattr(module, name): "function", "data", or "absent" (AttributeError).
Attr(module, name) ==
  CASE module = "testrules" ->
         IF name \in RuleFunctions THEN "function"
         ELSE IF name \in DataAttributes THEN "data" ELSE "absent"
    [] module = "testconditions" ->
         IF name \in ConditionFunctions THEN "function"
         ELSE IF name \in DataAttributes THEN "data" ELSE "absent"
    [] module = "shared" ->
         IF name \in RuleFunctions \cup ConditionFunctions THEN "function"
         ELSE IF name \in DataAttributes THEN "data" ELSE "absent"
    [] OTHER -> "absent"

\* What a registered function does when called as f(options, item):
\* it returns a value, raises, or keeps running until it is interrupted.
Returns(v) == [kind |-> "return", value |-> v]
Raises(t, m) == [kind |-> "raise", type |-> t, msg |-> m]
Hangs == [kind |-> "hang"]

Behaviour(func, options, item) ==
  CASE func = "passRule" -> Returns(TRUE)
    [] func = "exceptionRule" -> Raises("Exception", "Oops!")
    [] func = "timeoutRule" -> Hangs
    [] func = "optionRule" ->
         IF options = "opt" THEN Returns(TRUE) ELSE Raises("Exception", "Oops!")
    [] func = "assertRule" -> Raises("AssertionError", "assertRule")
    [] func = "socketRule" -> Raises("TimeoutError", "timed out")
    [] func = "psdRule" -> Returns(TRUE)
    [] func = "slowRule" -> Returns(TRUE)
    [] func = "slowExceptionRule" -> Raises("Exception", "Oops!")
    [] func = "quarantineRawFileRule" ->
         IF options = "unwritable"
         THEN Raises("ExitPipelineException", <<TRUE, "Quarantine failed">>)
         ELSE Raises("ExitPipelineException", <<FALSE, "File quarantined">>)
    [] func = "trueCondition" -> Returns(TRUE)
    [] func = "falseCondition" -> Returns(FALSE)
    [] func = "exceptionCondition" -> Raises("Exception", "Oops!")
    [] func = "optionCondition" -> Returns(options = "opt")
    [] func = "assertCondition" -> Raises("AssertionError", "assertCondition")
    [] func = "slowCondition" -> Returns(FALSE)
    [] OTHER -> Raises("Exception", "unknown")

\* A function whose body catches Exception around its work swallows an
\* exception raised into it by the signal handler and carries on
\* (PSDCollector.process: `except Exception as ex: return spectra`).
CatchesException(func) == func = "psdRule"

\* Functions whose work can last as long as a rule's timeout; the others
\* finish at once, so no deadline of a second or more runs out on them.
Slow(func) ==
  func \in {"timeoutRule", "psdRule", "slowRule", "slowExceptionRule",
            "slowCondition"}

\* `except Exception` matches every class below.
ExceptionClasses ==
  {"Exception", "AssertionError", "TimeoutError", "AttributeError",
   "TypeError", "KeyError", "ValueError"}

\* core.exceptions: ExitPipelineException(abort, message) is an ordinary
\* Exception subclass.
PipelineExceptions == {"ExitPipelineException"}

\* ------------------------------------------------------ configuration files
Cond(name, options) == [functionName |-> name, options |-> options]

RuleDef(name, options, conds) ==
  [functionName |-> name, options |-> options, conditions |-> conds]

\* A definition carrying the optional "timeout" key.
RuleDefT(name, options, conds, t) ==
  [functionName |-> name, options |-> options, conditions |-> conds,
   timeout |-> t]

\* json.load of a rule map file: rule name -> rule definition.
RulesJson ==
  [n \in {"pass", "condTrue", "condFalse", "condNotFalse", "condNotTrue",
          "condOptions", "condNotOptions", "options", "exception", "timeout",
          "condException", "condAssert", "assert", "socket", "psd",
          "zero", "slow", "slowException", "condSlow", "missingRule",
          "loggerRule", "missingCondition", "condLogger", "condNotLogger",
          "bangRule", "quarantine", "quarantineAbort"} |->
    CASE n = "pass" -> RuleDef("passRule", "none", <<>>)
      [] n = "condTrue" ->
           RuleDef("passRule", "none", <<Cond("trueCondition", "none")>>)
      [] n = "condFalse" ->
           RuleDef("passRule", "none",
                   <<Cond("trueCondition", "none"),
                     Cond("falseCondition", "none"),
                     Cond("exceptionCondition", "none")>>)
      [] n = "condNotFalse" ->
           RuleDef("passRule", "none", <<Cond("!falseCondition", "none")>>)
      [] n = "condNotTrue" ->
           RuleDef("passRule", "none",
                   <<Cond("!trueCondition", "none"),
                     Cond("trueCondition", "none")>>)
      [] n = "condOptions" ->
           RuleDef("passRule", "none", <<Cond("optionCondition", "opt")>>)
      [] n = "condNotOptions" ->
           RuleDef("passRule", "none", <<Cond("!optionCondition", "opt")>>)
      [] n = "options" -> RuleDef("optionRule", "opt", <<>>)
      [] n = "exception" -> RuleDef("exceptionRule", "none", <<>>)
      [] n = "timeout" -> RuleDefT("timeoutRule", "none", <<>>, 1)
      [] n = "condException" ->
           RuleDef("passRule", "none", <<Cond("exceptionCondition", "none")>>)
      [] n = "condAssert" ->
           RuleDef("passRule", "none", <<Cond("assertCondition", "none")>>)
      [] n = "assert" -> RuleDef("assertRule", "none", <<>>)
      [] n = "socket" -> RuleDef("socketRule", "none", <<>>)
      [] n = "psd" -> RuleDefT("psdRule", "none", <<>>, 2)
      [] n = "zero" -> RuleDefT("passRule", "none", <<>>, 0)
      [] n = "slow" -> RuleDefT("slowRule", "none", <<>>, 1)
      [] n = "slowException" -> RuleDef("slowExceptionRule", "none", <<>>)
      [] n = "condSlow" ->
           RuleDef("passRule", "none",
                   <<Cond("slowCondition", "none"),
                     Cond("trueCondition", "none")>>)
      [] n = "missingRule" -> RuleDef("nosuchRule", "none", <<>>)
      [] n = "loggerRule" -> RuleDef("logger", "none", <<>>)
      [] n = "missingCondition" ->
           RuleDef("passRule", "none", <<Cond("nosuchCondition", "none")>>)
      [] n = "condLogger" ->
           RuleDef("passRule", "none", <<Cond("logger", "none")>>)
      [] n = "condNotLogger" ->
           RuleDef("passRule", "none", <<Cond("!logger", "none")>>)
      [] n = "bangRule" -> RuleDef("!passRule", "none", <<>>)
      [] n = "quarantine" -> RuleDef("quarantineRawFileRule", "none", <<>>)
      [] n = "quarantineAbort" ->
           RuleDef("quarantineRawFileRule", "unwritable", <<>>)]

RuleMapFiles == {"rules.json"}

\* json.load of a sequence file: the ordered rule names.
SequenceFiles ==
  {"seq_conditions", "seq_negated", "seq_options", "seq_exception",
   "seq_timeout", "seq_condition_exception", "seq_raising",
   "seq_psd", "seq_slow", "seq_slow_condition", "seq_repeat", "seq_empty", "seq_unknown", "seq_missing_rule",
   "seq_not_callable", "seq_missing_condition", "seq_condition_data",
   "seq_negated_data", "seq_bang", "seq_quarantine"}

SequenceJson(file) ==
  CASE file = "seq_conditions" -> <<"condTrue", "condFalse">>
    [] file = "seq_negated" -> <<"condNotFalse", "condNotTrue">>
    [] file = "seq_options" -> <<"condOptions", "condNotOptions", "options">>
    [] file = "seq_exception" -> <<"exception", "pass">>
    [] file = "seq_timeout" -> <<"timeout", "pass">>
    [] file = "seq_condition_exception" -> <<"condException", "condAssert">>
    [] file = "seq_raising" -> <<"assert", "socket">>
    [] file = "seq_psd" -> <<"psd", "zero">>
    [] file = "seq_slow" -> <<"slow", "slowException">>
    [] file = "seq_slow_condition" -> <<"condSlow", "pass">>
    [] file = "seq_repeat" -> <<"pass", "pass">>
    [] file = "seq_empty" -> <<>>
    [] file = "seq_unknown" -> <<"pass", "nosuch">>
    [] file = "seq_missing_rule" -> <<"pass", "missingRule">>
    [] file = "seq_not_callable" -> <<"loggerRule">>
    [] file = "seq_missing_condition" -> <<"missingCondition">>
    [] file = "seq_condition_data" -> <<"condLogger">>
    [] file = "seq_negated_data" -> <<"condNotLogger", "pass">>
    [] file = "seq_bang" -> <<"bangRule">>
    [] file = "seq_quarantine" -> <<"quarantine", "quarantineAbort", "pass">>

\* A path that open() cannot read (IOError).
MissingFile == "missing.json"

\* ------------------------------------------------------------ rule binding
\* name.startswith("!") and name[1:], over the names the files use.
Negations ==
  [n \in {"!trueCondition", "!falseCondition", "!optionCondition",
          "!logger", "!passRule"} |->
    CASE n = "!trueCondition" -> "trueCondition"
      [] n = "!falseCondition" -> "falseCondition"
      [] n = "!optionCondition" -> "optionCondition"
      [] n = "!logger" -> "logger"
      [] n = "!passRule" -> "passRule"]

StartsWithBang(name) == name \in DOMAIN Negations

Ok(v) == [ok |-> TRUE, value |-> v]
Err(t) == [ok |-> FALSE, exc |-> t]

\* partial(f, options) or partial(invert(f), options): the callable, its
\* __name__ (functools.wraps keeps f's), the bound options and the inversion.
\* `callable` is false when invert() wrapped an attribute that is no function:
\* the wrapper g is a function, calling it raises TypeError.
Partial(func, options, inverted, callable) ==
  [func |-> func, options |-> options, inverted |-> inverted,
   callable |-> callable]

\* RuleManager.bindOptions, with self.conditions passed as `conds`.
bindOptions(conds, definitions, item) ==
  IF definitions = conds /\ StartsWithBang(item.functionName)
  THEN LET name == Negations[item.functionName] IN
       IF Attr(definitions, name) = "absent" THEN Err("AttributeError")
       ELSE Ok(Partial(name, item.options, TRUE,
                       Attr(definitions, name) = "function"))
  ELSE IF Attr(definitions, item.functionName) = "absent"
       THEN Err("AttributeError")
       ELSE IF Attr(definitions, item.functionName) # "function"
            THEN Err("TypeError")
            ELSE Ok(Partial(item.functionName, item.options, FALSE, TRUE))

\* Rule(call, conditions): the bound rule holds its action closure and the
\* ordered list of its condition closures.
RuleInit(call, boundConditions) ==
  IF \E c \in 1..Len(boundConditions) : ~boundConditions[c].ok
  THEN LET first == CHOOSE c \in 1..Len(boundConditions) :
                      /\ ~boundConditions[c].ok
                      /\ \A d \in 1..(c - 1) : boundConditions[d].ok
       IN Err(boundConditions[first].exc)
  ELSE Ok([call |-> call,
           conditions |-> [c \in 1..Len(boundConditions) |->
                             boundConditions[c].value]])

\* A getRule that ignores the rule's own "timeout" key.
RuleTimeoutDefaultOnly(rule) == DEFAULT_RULE_TIMEOUT

\* rule.get("timeout") or config["DEFAULT_RULE_TIMEOUT"]
RuleTimeout(rule) ==
  IF "timeout" \in DOMAIN rule /\ rule.timeout # 0
  THEN rule.timeout
  ELSE DEFAULT_RULE_TIMEOUT

\* RuleManager.getRule, with self.rules / self.conditions passed in.
getRule(rulesMod, conds, rule) ==
  LET call == bindOptions(conds, rulesMod, rule) IN
  IF ~call.ok THEN call
  ELSE LET obj == RuleInit(call.value,
                           [c \in 1..Len(rule.conditions) |->
                              bindOptions(conds, conds, rule.conditions[c])])
       IN IF ~obj.ok THEN obj
          ELSE Ok([rule |-> obj.value, timeout |-> RuleTimeout(rule)])

\* RuleManager.__checkRuleSequence: None when every item passes, else the
\* class of the exception that leaves the method.
checkRuleSequence(rulesMod, conds, sequence) ==
  IF \A x \in 1..Len(sequence) : getRule(rulesMod, conds, sequence[x]).ok
  THEN None
  ELSE LET first == CHOOSE x \in 1..Len(sequence) :
                      /\ ~getRule(rulesMod, conds, sequence[x]).ok
                      /\ \A y \in 1..(x - 1) :
                           getRule(rulesMod, conds, sequence[y]).ok
           exc == getRule(rulesMod, conds, sequence[first]).exc
       IN IF exc = "AttributeError" THEN "NotImplementedError" ELSE exc

\* --------------------------------------------------------------- the state
VARIABLES
  rules,         \* self.rules: the rule module, or None
  conditions,    \* self.conditions: the condition module, or None
  ruleSequence,  \* self.ruleSequence: <<>> for None, <<list of definitions>>
  loadResult,    \* how the last loadRules call ended: "ok" or the exception
  loadFiles,     \* the two file arguments of the last loadRules call
  pc,            \* position of the caller / of sequence()
  items,         \* the list passed to sequence()
  i,             \* number of items started (enumerate index + 1)
  k,             \* number of rules of the current item started
  j,             \* number of conditions of the current rule that passed
  bound,         \* <<>> or <<[rule, timeout]>>: what getRule returned
  alarm,         \* seconds armed by signal.alarm and still pending, 0 if none
  exc,           \* the exception in flight or being handled, or None
  outcome,       \* the record the current logging call is about to emit
  log,           \* records emitted by self.logger during the current call
  history,       \* calls of bound closures and alarm deliveries, in order
  sdsFile,       \* the SDSFile under study, or None
  trail,         \* the next / previous accesses that led to sdsFile
  files,         \* SDSFileCollector.files: what is left of the iterator
  archive,       \* the filenames found in the archive at construction
  today,         \* the date datetime.now() falls on
  collected,     \* what the last collect call returned, or None
  request,       \* the last collect call and its argument
  psdValue,      \* x, the PSD value handed to PSDCollector.__reduce, in halves
  isInfrasound,  \* its second argument
  reduced,       \* <<what __reduce returned for psdValue>>, <<>> before the call
  reducedBefore  \* the same for the value one half below, <<>> if none

vars == <<rules, conditions, ruleSequence, loadResult, loadFiles, pc, items, i, k, j,
          bound, alarm, exc, outcome, log, history, sdsFile, trail,
          files, archive, today, collected, request,
          psdValue, isInfrasound, reduced, reducedBefore>>

sds == <<sdsFile, trail>>

collector == <<files, archive, today, collected, request>>

psd == <<psdValue, isInfrasound, reduced, reducedBefore>>

\* No SDSFile, no SDSFileCollector, no PSD value is under study.
NoSDSFile == sdsFile = None /\ trail = <<>>

NoRequest == [op |-> None, arg |-> None]

NoCollector ==
  /\ files = <<>>
  /\ archive = <<>>
  /\ today = None
  /\ collected = None
  /\ request = NoRequest

NoPSD ==
  /\ psdValue = 0
  /\ isInfrasound = FALSE
  /\ reduced = <<>>
  /\ reducedBefore = <<>>

\* The state of a RuleManager and of the sequence() call in progress.
engine == <<rules, conditions, ruleSequence, loadResult, loadFiles, pc, items,
            i, k, j, bound, alarm, exc, outcome, log, history>>

NoExc == [type |-> None, msg |-> None]

\* Items are told apart by their filename only.
Filenames == <<"NL.HGN.02.BHZ.D.1970.001", "NL.HGN.02.BHZ.D.1970.002",
               "NL.HGN.02.BHZ.D.1970.003", "NL.HGN.02.BHZ.D.1970.004">>

ItemLists == {SubSeq(Filenames, 1, n) : n \in 0..MaxItems}

\* RuleManager.__init__
Init ==
  /\ rules = None
  /\ conditions = None
  /\ ruleSequence = <<>>
  /\ loadResult = None
  /\ loadFiles = <<None, None>>
  /\ pc = "idle"
  /\ items = <<>>
  /\ i = 0
  /\ k = 0
  /\ j = 0
  /\ bound = <<>>
  /\ alarm = 0
  /\ exc = NoExc
  /\ outcome = None
  /\ log = <<>>
  /\ history = <<>>
  /\ sdsFile = None
  /\ trail = <<>>
  /\ NoCollector
  /\ NoPSD

\* ---------------------------------------------------------------- loadRules
\* What loadRules raises when rule_desc[x] raises KeyError.
LookupFailureUncaught == "KeyError"

LookupFailure == "ValueError"

\* The list comprehension [rule_desc[x] for x in rule_seq].
Resolve(rule_desc, rule_seq) ==
  [x \in 1..Len(rule_seq) |-> rule_desc[rule_seq[x]]]

\* RuleManager.loadRules: the whole call, returning or raising.
loadRules(ruleModule, conditionModule, ruleMapFile, ruleSequenceFile) ==
  /\ pc = "idle"
  /\ loadFiles' = <<ruleMapFile, ruleSequenceFile>>
  /\ rules' = ruleModule
  /\ conditions' = conditionModule
  /\ IF ruleMapFile \notin RuleMapFiles \/ ruleSequenceFile \notin SequenceFiles
     THEN /\ loadResult' = "IOError"
          /\ UNCHANGED ruleSequence
     ELSE LET rule_desc == RulesJson
              rule_seq == SequenceJson(ruleSequenceFile)
          IN IF \E x \in 1..Len(rule_seq) : rule_seq[x] \notin DOMAIN rule_desc
             THEN /\ loadResult' = LookupFailure
                  /\ UNCHANGED ruleSequence
             ELSE LET resolved == Resolve(rule_desc, rule_seq)
                      failure == checkRuleSequence(ruleModule, conditionModule,
                                                   resolved)
                  IN /\ ruleSequence' = <<resolved>>
                     /\ loadResult' = IF failure = None THEN "ok" ELSE failure
  /\ UNCHANGED <<pc, items, i, k, j, bound, alarm, exc, outcome, log, history>>
  /\ UNCHANGED <<sds, collector, psd>>

LoadRules ==
  \E ruleModule \in RuleModules, conditionModule \in ConditionModules,
     ruleMapFile \in RuleMapFiles \cup {MissingFile},
     ruleSequenceFile \in SequenceFiles \cup {MissingFile} :
    loadRules(ruleModule, conditionModule, ruleMapFile, ruleSequenceFile)

\* ----------------------------------------------------------------- sequence
Item == items[i]
Rule == bound[1].rule
Pair == <<i, k>>

\* The four outcome records of sequence() and the per-item header; `pair`
\* tells which (item, rule) iteration emitted the record.
ProcessingRecord(item, idx, total) ==
  [level |-> "INFO", kind |-> "processing", item |-> item, rule |-> None,
   detail |-> <<idx, total>>, pair |-> <<idx + 1, 0>>]

OutcomeRecord(kind, item, name, e, pair) ==
  CASE kind = "success" ->
         [level |-> "INFO", kind |-> "success", item |-> item, rule |-> name,
          detail |-> None, pair |-> pair]
    [] kind = "timeout" ->
         [level |-> "WARNING", kind |-> "timeout", item |-> item,
          rule |-> name, detail |-> None, pair |-> pair]
    [] kind = "policy" ->
         [level |-> "INFO", kind |-> "policy", item |-> item, rule |-> name,
          detail |-> e.msg, pair |-> pair]
    [] kind = "error" ->
         [level |-> "ERROR", kind |-> "error", item |-> item, rule |-> name,
          detail |-> e.msg, pair |-> pair]

\* index: position of the condition in the rule's list, 0 for the action.
CallEvent(role, index, closure, item, pair) ==
  [ev |-> "call", role |-> role, index |-> index, closure |-> closure,
   item |-> item, pair |-> pair]

\* The boolean a condition closure handed back to Rule.apply.
ReturnEvent(index, value, pair) ==
  [ev |-> "return", index |-> index, value |-> value, pair |-> pair]

RuleEvent(pair) == [ev |-> "rule", pair |-> pair]

AlarmEvent(at, pair) == [ev |-> "alarm", at |-> at, pair |-> pair]

\* Except clauses that let the pipeline-exit signal through.
HandlerExitEscapes(type) ==
  IF type = "TimeoutError" THEN "timeout"
  ELSE IF type = "AssertionError" THEN "policy"
  ELSE IF type \in ExceptionClasses THEN "error"
  ELSE "none"

\* Which except clause of sequence() takes an exception raised in the try
\* body; "none" when no clause matches.
Handler(type) ==
  IF type = "TimeoutError" THEN "timeout"
  ELSE IF type = "AssertionError" THEN "policy"
  ELSE IF type \in ExceptionClasses \cup PipelineExceptions THEN "error"
  ELSE "none"

\* An exception of class t reaches the except clauses.
RaiseInTry(t, m) ==
  /\ exc' = [type |-> t, msg |-> m]
  /\ IF Handler(t) = "none"
     THEN pc' = "unwind" /\ UNCHANGED outcome
     ELSE pc' = "log" /\ outcome' = Handler(t)

\* The caller invokes sequence(items).
sequence(its) ==
  /\ pc = "idle"
  /\ pc' = "forItems"
  /\ items' = its
  /\ i' = 0 /\ k' = 0 /\ j' = 0
  /\ bound' = <<>>
  /\ exc' = NoExc
  /\ outcome' = None
  /\ log' = <<>>
  /\ history' = <<>>
  /\ UNCHANGED <<rules, conditions, ruleSequence, loadResult, loadFiles,
                 alarm>>
  /\ UNCHANGED <<sds, collector, psd>>

Sequence == \E its \in ItemLists : sequence(its)

\* for i, item in enumerate(items): the header record, then the (lazy)
\* map(self.getRule, self.ruleSequence) is created.
NextItem ==
  /\ pc = "forItems"
  /\ IF i = Len(items)
     THEN /\ pc' = "returned"
          /\ UNCHANGED <<i, k, exc, log>>
     ELSE /\ i' = i + 1
          /\ k' = 0
          /\ log' = Append(log, ProcessingRecord(items[i + 1], i, Len(items)))
          /\ IF ruleSequence = <<>>
             THEN /\ exc' = [type |-> "TypeError", msg |-> "not iterable"]
                  /\ pc' = "raised"
             ELSE /\ pc' = "forRules"
                  /\ UNCHANGED exc
  /\ UNCHANGED <<rules, conditions, ruleSequence, loadResult, loadFiles, items, j, bound,
                 alarm, outcome, history>>
  /\ UNCHANGED <<sds, collector, psd>>

\* A binding step that takes the options out of the definition it binds.
NextRuleConsuming ==
  /\ pc = "forRules"
  /\ IF k = Len(ruleSequence[1])
     THEN /\ pc' = "forItems"
          /\ UNCHANGED <<k, j, bound, alarm, exc, history, ruleSequence>>
     ELSE LET got == getRule(rules, conditions, ruleSequence[1][k + 1]) IN
          /\ k' = k + 1
          /\ IF got.ok
             THEN /\ bound' = <<got.value>>
                  /\ alarm' = got.value.timeout
                  /\ j' = 0
                  /\ pc' = "apply"
                  /\ history' = Append(history, RuleEvent(<<i, k + 1>>))
                  /\ ruleSequence' =
                       <<[ruleSequence[1] EXCEPT ![k + 1].options = "none"]>>
                  /\ UNCHANGED exc
             ELSE /\ exc' = [type |-> got.exc, msg |-> "getRule"]
                  /\ pc' = "raised"
                  /\ UNCHANGED <<j, bound, alarm, history, ruleSequence>>
  /\ UNCHANGED <<rules, conditions, loadResult, loadFiles, items, i,
                 outcome, log>>
  /\ UNCHANGED <<sds, collector, psd>>

\* for rule, timeout in map(...): getRule binds the next definition, then
\* signal.signal and signal.alarm(timeout) arm the deadline.
NextRule ==
  /\ pc = "forRules"
  /\ IF k = Len(ruleSequence[1])
     THEN /\ pc' = "forItems"
          /\ UNCHANGED <<k, j, bound, alarm, exc, history>>
     ELSE LET got == getRule(rules, conditions, ruleSequence[1][k + 1]) IN
          /\ k' = k + 1
          /\ IF got.ok
             THEN /\ bound' = <<got.value>>
                  /\ alarm' = got.value.timeout
                  /\ j' = 0
                  /\ pc' = "apply"
                  /\ history' = Append(history, RuleEvent(<<i, k + 1>>))
                  /\ UNCHANGED exc
             ELSE /\ exc' = [type |-> got.exc, msg |-> "getRule"]
                  /\ pc' = "raised"
                  /\ UNCHANGED <<j, bound, alarm, history>>
  /\ UNCHANGED <<rules, conditions, ruleSequence, loadResult, loadFiles, items, i,
                 outcome, log>>
  /\ UNCHANGED <<sds, collector, psd>>

\* Rule.apply: the next condition closure is called with the item.
CallCondition ==
  /\ pc = "apply"
  /\ j < Len(Rule.conditions)
  /\ history' = Append(history,
                       CallEvent("condition", j + 1, Rule.conditions[j + 1],
                                 Item, Pair))
  /\ pc' = "inCondition"
  /\ UNCHANGED <<rules, conditions, ruleSequence, loadResult, loadFiles, items, i, k, j,
                 bound, alarm, exc, outcome, log>>
  /\ UNCHANGED <<sds, collector, psd>>

\* closure(item): the bound function runs with (options, item).
Call(closure, item) ==
  IF closure.callable
  THEN Behaviour(closure.func, closure.options, item)
  ELSE Raises("TypeError", "object is not callable")

\* The wrapper of invert() that forgets the `not`.
ResultNotInverted(closure, value) == value

\* What g(*args) of invert, or f itself, hands back for a returning call.
Result(closure, value) == IF closure.inverted THEN ~value ELSE value

\* The condition finishes: a true result moves on, a false one raises
\* AssertionError naming the condition, an exception propagates.
ConditionReturns ==
  /\ pc = "inCondition"
  /\ LET c == Rule.conditions[j + 1]
         b == Call(c, Item)
     IN /\ b.kind # "hang"
        /\ IF b.kind = "return"
           THEN /\ history' = Append(history,
                                     ReturnEvent(j + 1, Result(c, b.value), Pair))
                /\ IF Result(c, b.value)
                   THEN /\ j' = j + 1
                        /\ pc' = "apply"
                        /\ UNCHANGED <<exc, outcome>>
                   ELSE /\ RaiseInTry("AssertionError", c.func)
                        /\ UNCHANGED j
           ELSE /\ RaiseInTry(b.type, b.msg)
                /\ UNCHANGED <<j, history>>
  /\ UNCHANGED <<rules, conditions, ruleSequence, loadResult, loadFiles, items, i, k,
                 bound, alarm, log>>
  /\ UNCHANGED <<sds, collector, psd>>

\* Rule.apply: every condition passed, the action closure is called.
CallAction ==
  /\ pc = "apply"
  /\ j = Len(Rule.conditions)
  /\ history' = Append(history, CallEvent("action", 0, Rule.call, Item, Pair))
  /\ pc' = "inAction"
  /\ UNCHANGED <<rules, conditions, ruleSequence, loadResult, loadFiles, items, i, k, j,
                 bound, alarm, exc, outcome, log>>
  /\ UNCHANGED <<sds, collector, psd>>

\* The action finishes: apply returns and the success record is next, or
\* the exception propagates into the try statement.
ActionReturns ==
  /\ pc = "inAction"
  /\ LET b == Call(Rule.call, Item)
     IN /\ b.kind # "hang"
        /\ IF b.kind = "return"
           THEN /\ outcome' = "success"
                /\ pc' = "log"
                /\ UNCHANGED exc
           ELSE RaiseInTry(b.type, b.msg)
  /\ UNCHANGED <<rules, conditions, ruleSequence, loadResult, loadFiles, items, i, k, j,
                 bound, alarm, log, history>>
  /\ UNCHANGED <<sds, collector, psd>>

\* self.logger.info / warning / error emits the outcome record.
Log ==
  /\ pc = "log"
  /\ log' = Append(log, OutcomeRecord(outcome, Item, Rule.call.func,
                                      exc, Pair))
  /\ pc' = "logged"
  /\ UNCHANGED <<rules, conditions, ruleSequence, loadResult, loadFiles, items, i, k, j,
                 bound, alarm, exc, outcome, history>>
  /\ UNCHANGED <<sds, collector, psd>>

\* A finally clause that forgets signal.alarm(0).
FinallyKeepsAlarm ==
  /\ pc \in {"logged", "unwind"}
  /\ IF pc = "unwind"
     THEN pc' = "raised" /\ UNCHANGED exc
     ELSE pc' = "forRules" /\ exc' = NoExc
  /\ UNCHANGED <<rules, conditions, ruleSequence, loadResult, loadFiles, items, i, k, j,
                 bound, alarm, outcome, log, history>>
  /\ UNCHANGED <<sds, collector, psd>>

\* finally: signal.alarm(0); then the next rule, or the exception that no
\* clause handled leaves sequence().
Finally ==
  /\ pc \in {"logged", "unwind"}
  /\ alarm' = 0
  /\ IF pc = "unwind"
     THEN pc' = "raised" /\ UNCHANGED exc
     ELSE pc' = "forRules" /\ exc' = NoExc
  /\ UNCHANGED <<rules, conditions, ruleSequence, loadResult, loadFiles, items, i, k, j,
                 bound, outcome, log, history>>
  /\ UNCHANGED <<sds, collector, psd>>

\* The closure a call in progress is running.
Running ==
  IF pc = "inCondition" THEN Rule.conditions[j + 1] ELSE Rule.call

\* Time enough for a deadline to run out has passed in the current iteration
\* only if it called a slow function.
Elapsed ==
  \E e \in 1..Len(history) :
    /\ history[e].ev = "call"
    /\ history[e].pair = Pair
    /\ Slow(history[e].closure.func)

\* RuleManager.__signalHandler: SIGALRM is delivered while the alarm is
\* pending and TimeoutError is raised at the point sequence() has reached.
\*  - in a condition or the action: a body that catches Exception swallows it
\*    and carries on, otherwise it propagates to `except TimeoutError`;
\*  - in the try body around the success record: `except TimeoutError`;
\*  - in an except clause: the exception leaves the clause, finally runs;
\*  - in the finally clause before signal.alarm(0): it leaves sequence().
signalHandler ==
  /\ alarm > 0
  /\ Elapsed
  /\ pc \in {"apply", "inCondition", "inAction", "log", "logged", "unwind"}
  /\ alarm' = 0
  /\ history' = Append(history, AlarmEvent(pc, Pair))
  /\ \/ /\ pc \in {"inCondition", "inAction"}
        /\ CatchesException(Running.func)
        /\ UNCHANGED <<pc, exc, outcome>>
     \/ /\ pc \in {"apply", "inCondition", "inAction"}
        /\ ~(pc # "apply" /\ CatchesException(Running.func))
        /\ RaiseInTry("TimeoutError", "Metric calculation has timed out.")
     \/ /\ pc \in {"log", "logged"}
        /\ outcome = "success"
        /\ RaiseInTry("TimeoutError", "Metric calculation has timed out.")
     \/ /\ pc = "log"
        /\ outcome # "success"
        /\ exc' = [type |-> "TimeoutError",
                   msg |-> "Metric calculation has timed out."]
        /\ pc' = "unwind"
        /\ UNCHANGED outcome
     \/ /\ pc \in {"logged", "unwind"}
        /\ exc' = [type |-> "TimeoutError",
                   msg |-> "Metric calculation has timed out."]
        /\ pc' = "raised"
        /\ UNCHANGED outcome
  /\ UNCHANGED <<rules, conditions, ruleSequence, loadResult, loadFiles, items, i, k, j,
                 bound, log>>
  /\ UNCHANGED <<sds, collector, psd>>

\* sequence() has returned or raised; control is back with the caller.
Return ==
  /\ pc \in {"returned", "raised"}
  /\ pc' = "idle"
  /\ items' = <<>>
  /\ i' = 0 /\ k' = 0 /\ j' = 0
  /\ bound' = <<>>
  /\ alarm' = 0
  /\ exc' = NoExc
  /\ outcome' = None
  /\ log' = <<>>
  /\ history' = <<>>
  /\ UNCHANGED <<rules, conditions, ruleSequence, loadResult, loadFiles>>
  /\ UNCHANGED <<sds, collector, psd>>

Next ==
  \/ LoadRules
  \/ Sequence
  \/ NextItem
  \/ NextRule
  \/ CallCondition
  \/ ConditionReturns
  \/ CallAction
  \/ ActionReturns
  \/ Log
  \/ Finally
  \/ signalHandler
  \/ Return

Spec == Init /\ [][Next]_vars

\* ================================================== orfeus/sdsfile.py: SDSFile
\* A filename "NET.STA.LOC.CHA.Q.YYYY.DDD" is the tuple of its seven
\* dot-separated pieces; the year and the day are texts, sequences of decimal
\* digits.  A date is [year, day]: a year and a day of that year.

\* int() of a text of digits, as strptime reads %Y and %j.
RECURSIVE ParseInt(_)
ParseInt(text) ==
  IF text = <<>> THEN 0
  ELSE 10 * ParseInt(SubSeq(text, 1, Len(text) - 1)) + text[Len(text)]

\* strftime("%Y") for a year of four digits.
FormatYear(y) ==
  <<y \div 1000, (y \div 100) % 10, (y \div 10) % 10, y % 10>>

\* strftime("%j"): the day of the year, zero-padded to three digits.
FormatDay(d) == <<d \div 100, (d \div 10) % 10, d % 10>>

\* Day counting that takes every fourth year for a leap year.
DaysBeforeYearJulian(y) ==
  LET p == y - 1 IN p * 365 + p \div 4

\* datetime arithmetic runs on proleptic Gregorian ordinals: the number of
\* days before 1 January of year y ...
DaysBeforeYear(y) ==
  LET p == y - 1 IN p * 365 + p \div 4 - p \div 100 + p \div 400

\* ... the ordinal of a date, and the date of an ordinal.
Ordinal(date) == DaysBeforeYear(date.year) + date.day

FromOrdinal(n) ==
  LET y == CHOOSE y \in (n \div 366)..(n \div 365 + 1) :
             DaysBeforeYear(y) < n /\ n <= DaysBeforeYear(y + 1)
  IN [year |-> y, day |-> n - DaysBeforeYear(y)]

\* SDSFile.__init__: filename.split(".")
SDSFile(filename) ==
  [filename |-> filename, net |-> filename[1], sta |-> filename[2],
   loc |-> filename[3], cha |-> filename[4], quality |-> filename[5],
   year |-> filename[6], day |-> filename[7]]

\* SDSFile.start: datetime.strptime(self.year + " " + self.day, "%Y %j")
start(f) == [year |-> ParseInt(f.year), day |-> ParseInt(f.day)]

\* SDSFile.__getAdjacentFile
getAdjacentFile(f, direction) ==
  LET newDate == FromOrdinal(Ordinal(start(f)) + direction)
      newYear == FormatYear(newDate.year)
      newDay == FormatDay(newDate.day)
  IN SDSFile(<<f.net, f.sta, f.loc, f.cha, f.quality, newYear, newDay>>)

next(f) == getAdjacentFile(f, 1)

previous(f) == getAdjacentFile(f, -1)

\* The day files studied: two streams (one with an empty location code),
\* every day of the years around two century boundaries, 1900 (365 days) and
\* 2000 (366 days), up to MaxYear.
Streams == {<<"NL", "HGN", "02", "BHZ", "D">>, <<"NL", "HGN", "", "BHZ", "D">>}

Years == (1899..1901) \cup (1999..MaxYear)

LeapYear(y) == (y % 4 = 0 /\ y % 100 # 0) \/ y % 400 = 0

DaysInYear(y) == IF LeapYear(y) THEN 366 ELSE 365

ValidFilenames ==
  {<<st[1], st[2], st[3], st[4], st[5], FormatYear(y), FormatDay(d)>> :
     st \in Streams, y \in Years, d \in 1..366} \ 
  {<<st[1], st[2], st[3], st[4], st[5], FormatYear(y), FormatDay(366)>> :
     st \in Streams, y \in {x \in Years : ~LeapYear(x)}}

\* SDSFile(filename) for some valid filename.
InitSDS ==
  /\ rules = None
  /\ conditions = None
  /\ ruleSequence = <<>>
  /\ loadResult = None
  /\ loadFiles = <<None, None>>
  /\ pc = "idle"
  /\ items = <<>>
  /\ i = 0
  /\ k = 0
  /\ j = 0
  /\ bound = <<>>
  /\ alarm = 0
  /\ exc = NoExc
  /\ outcome = None
  /\ log = <<>>
  /\ history = <<>>
  /\ sdsFile \in {SDSFile(filename) : filename \in ValidFilenames}
  /\ trail = <<>>
  /\ NoCollector
  /\ NoPSD

Access(op, f) == [op |-> op, from |-> f.filename]

\* f = f.next
AccessNext ==
  /\ Len(trail) < MaxSteps
  /\ sdsFile' = next(sdsFile)
  /\ trail' = Append(trail, Access("next", sdsFile))
  /\ UNCHANGED <<engine, collector, psd>>

\* f = f.previous
AccessPrevious ==
  /\ Len(trail) < MaxSteps
  /\ sdsFile' = previous(sdsFile)
  /\ trail' = Append(trail, Access("previous", sdsFile))
  /\ UNCHANGED <<engine, collector, psd>>

NextSDS ==
  \/ AccessNext
  \/ AccessPrevious

SpecSDS == InitSDS /\ [][NextSDS]_vars

\* ====================================== orfeus/sdscollector.py: SDSFileCollector
\* A RuleManager nobody has used yet.
NoEngine ==
  /\ rules = None
  /\ conditions = None
  /\ ruleSequence = <<>>
  /\ loadResult = None
  /\ loadFiles = <<None, None>>
  /\ pc = "idle"
  /\ items = <<>>
  /\ i = 0
  /\ k = 0
  /\ j = 0
  /\ bound = <<>>
  /\ alarm = 0
  /\ exc = NoExc
  /\ outcome = None
  /\ log = <<>>
  /\ history = <<>>

\* date - timedelta(days=n)
DaysAgo(date, n) == FromOrdinal(Ordinal(date) - n)

\* The reference dates studied: the second day and the first day of a year
\* that follows a year of 365, respectively 366, days.
Todays == {[year |-> 2000, day |-> 2], [year |-> 2001, day |-> 1]}

\* The day files an archive may hold: one stream, one file for the reference
\* date and for each of the MaxDays + 1 days before it, oldest first.
Candidates(date) ==
  [n \in 1..(MaxDays + 2) |->
     LET d == DaysAgo(date, MaxDays + 2 - n) IN
     <<"NL", "HGN", "02", "BHZ", "D", FormatYear(d.year), FormatDay(d.day)>>]

\* map(SDSFile, self.files): an iterator, told by the items it has yet to
\* hand out.
collectAll(filenames) == [n \in 1..Len(filenames) |-> SDSFile(filenames[n])]

\* SDSFileCollector(archiveDir), for some content of the archive.
InitCollector ==
  /\ NoEngine
  /\ NoSDSFile
  /\ NoPSD
  /\ today \in Todays
  /\ \E held \in SUBSET (1..(MaxDays + 2)) :
       archive = SelectSeq(Candidates(today),
                           LAMBDA f : \E n \in held : Candidates(today)[n] = f)
  /\ files = collectAll(archive)
  /\ collected = None
  /\ request = NoRequest

\* collectFromDate: list(filter(..., self.files)) runs the iterator to its
\* end.  The result and what is left of self.files.
collectFromDate(fs, date) ==
  [collected |-> SelectSeq(fs, LAMBDA x : /\ x.day = FormatDay(date.day)
                                          /\ x.year = FormatYear(date.year)),
   files |-> <<>>]

Abs(n) == IF n < 0 THEN -n ELSE n

\* The loop `for day in range(1, abs(days))` of collectFromDateRange, from
\* `day` on, with collectedFiles so far.
RECURSIVE DateRangeLoop(_, _, _, _, _)
DateRangeLoop(fs, date, days, day, collectedFiles) ==
  IF day >= Abs(days)
  THEN [collected |-> collectedFiles, files |-> fs]
  ELSE LET got == IF days > 0
                  THEN collectFromDate(fs, FromOrdinal(Ordinal(date) + day))
                  ELSE collectFromDate(fs, DaysAgo(date, day))
       IN DateRangeLoop(got.files, date, days, day + 1,
                        collectedFiles \o got.collected)

collectFromDateRange(fs, date, days) == DateRangeLoop(fs, date, days, 1, <<>>)

\* collectFromPastDays(days): collectFromDateRange(datetime.now(), -days)
collectFromPastDays(days) ==
  LET got == collectFromDateRange(files, today, -days) IN
  /\ collected' = got.collected
  /\ files' = got.files
  /\ request' = [op |-> "collectFromPastDays", arg |-> days]
  /\ UNCHANGED <<archive, today>>
  /\ UNCHANGED <<engine, sds, psd>>

CollectFromPastDays == \E days \in 0..MaxDays : collectFromPastDays(days)

\* A caller's own collectFromDate(date) call.
CollectFromDate ==
  \E n \in 0..MaxDays :
    LET got == collectFromDate(files, DaysAgo(today, n)) IN
    /\ collected' = got.collected
    /\ files' = got.files
    /\ request' = [op |-> "collectFromDate", arg |-> DaysAgo(today, n)]
    /\ UNCHANGED <<archive, today>>
    /\ UNCHANGED <<engine, sds, psd>>

NextCollector ==
  \/ CollectFromPastDays
  \/ CollectFromDate

SpecCollector == InitCollector /\ [][NextCollector]_vars

\* ============================================ modules/psdcollector.py: __reduce
\* ObsPy hands PSD values over as floats: a value is a multiple of one half,
\* told by its (integer) number of halves.
int(halves) ==
  IF halves >= 0 THEN halves \div 2 ELSE -((-halves) \div 2)

\* A __reduce without the upper bound.
reduceUnbounded(halves, infrasound) ==
  LET x == IF infrasound THEN int(halves) - 100 ELSE int(halves) IN
  IF x < -255 THEN 0 ELSE x + 255

\* PSDCollector.__reduce(x, isInfrasound)
reduce(halves, infrasound) ==
  LET x == IF infrasound THEN int(halves) - 100 ELSE int(halves) IN
  IF x < -255 THEN 0
  ELSE IF x > 0 THEN 255
  ELSE x + 255

InitPSD ==
  /\ NoEngine
  /\ NoSDSFile
  /\ NoCollector
  /\ psdValue \in (2 * LeastPSD)..(2 * MaxPSD)
  /\ isInfrasound \in BOOLEAN
  /\ reduced = <<>>
  /\ reducedBefore = <<>>

\* self.__reduce(x, isInfrasound) for the value at hand.
Reduce ==
  /\ reduced = <<>>
  /\ reduced' = <<reduce(psdValue, isInfrasound)>>
  /\ UNCHANGED <<psdValue, isInfrasound, reducedBefore>>
  /\ UNCHANGED <<engine, sds, collector>>

\* The list comprehension of __getFrequencyOffset moves on, here to the value
\* one half above.
NextValue ==
  /\ reduced # <<>>
  /\ psdValue < 2 * MaxPSD
  /\ psdValue' = psdValue + 1
  /\ reducedBefore' = reduced
  /\ reduced' = <<>>
  /\ UNCHANGED isInfrasound
  /\ UNCHANGED <<engine, sds, collector>>

NextPSD ==
  \/ Reduce
  \/ NextValue

SpecPSD == InitPSD /\ [][NextPSD]_vars

\* ================================================================== claims
\* Reading the log and the history of the current sequence() call.
Before(p, q) == p[1] < q[1] \/ (p[1] = q[1] /\ p[2] < q[2])

\* The iteration for pair p is over: a later one has begun, or control left
\* the try statement of the current one.
Finished(p) ==
  \/ Before(p, Pair)
  \/ p = Pair /\ pc \in {"forRules", "forItems", "returned", "raised"}

IsPair(r, p) == r.pair = p

PairRecords(p) == SelectSeq(log, LAMBDA r : r.pair = p)

Kinds(records) == [n \in 1..Len(records) |-> records[n].kind]

Calls == {e \in 1..Len(history) : history[e].ev = "call"}

\* The alarm went off inside call e and the function did not swallow it.
Interrupted(e) ==
  /\ e < Len(history)
  /\ history[e + 1].ev = "alarm"
  /\ history[e + 1].at \in {"inCondition", "inAction"}
  /\ ~CatchesException(history[e].closure.func)

\* Call e ended by the function's own return or raise.
Completed(e) ==
  /\ ~Interrupted(e)
  /\ \/ e < Len(history)
     \/ pc \notin {"inCondition", "inAction"}

OwnOutcome(e) == Call(history[e].closure, history[e].item)

\* Sequence() was entered with the pipeline of a successful loadRules call.
Loaded == loadResult = "ok"

Ended == pc \in {"returned", "raised"}

\* The (item, rule) pairs in the order `for item ... for rule ...` visits them.
ExpectedVisits ==
  LET n == Len(ruleSequence[1]) IN
  [v \in 1..(Len(items) * n) |-> <<((v - 1) \div n) + 1, ((v - 1) % n) + 1>>]

Visits ==
  LET r == SelectSeq(history, LAMBDA e : e.ev = "rule") IN
  [v \in 1..Len(r) |-> r[v].pair]

Started ==
  LET r == SelectSeq(log, LAMBDA e : e.kind = "processing") IN
  [v \in 1..Len(r) |-> r[v].item]

\* C1: when a sequence(I) call on a loaded pipeline P is over, every item of
\* I was started exactly once in order and every rule of P was attempted
\* exactly once, in order, for every item, whatever the earlier outcomes.
C1_EveryItemEveryRuleOnce ==
  (Loaded /\ Ended) => (Started = items /\ Visits = ExpectedVisits)

\* C2: no per-(item, rule) failure escapes: a sequence() call on a loaded
\* pipeline never ends by raising.
C2_NoFailureEscapes ==
  Loaded => pc # "raised"

\* C3: a condition that returns a false (possibly negated) result is the last
\* closure called for its (item, rule), and that pair logs exactly one
\* 'did not pass policy' record, naming the condition.
C3_ShortCircuitOneRecord ==
  \A e \in Calls :
    ( /\ history[e].role = "condition"
      /\ Finished(history[e].pair)
      /\ Completed(e)
      /\ OwnOutcome(e).kind = "return"
      /\ ~Result(history[e].closure, OwnOutcome(e).value) )
    => /\ \A f \in Calls : ~(f > e /\ history[f].pair = history[e].pair)
       /\ Kinds(PairRecords(history[e].pair)) = <<"policy">>
       /\ PairRecords(history[e].pair)[1].detail = history[e].closure.func

\* C4: an action still running when the alarm goes off gives its pair exactly
\* one 'Timeout calling rule' record and no other outcome record, whether or
\* not the action catches exceptions raised into it.
C4_TimeoutOneWarning ==
  \A e \in Calls :
    ( /\ history[e].role = "action"
      /\ Finished(history[e].pair)
      /\ e < Len(history)
      /\ history[e + 1].ev = "alarm"
      /\ history[e + 1].at = "inAction" )
    => /\ Kinds(PairRecords(history[e].pair)) = <<"timeout">>
       /\ PairRecords(history[e].pair)[1].level = "WARNING"

\* C5: an action that raises an error of its own gives its pair exactly one
\* error record with the item, the function name and the message, and the
\* call goes on with the next rule.
C5_ActionErrorOneRecord ==
  \A e \in Calls :
    ( /\ history[e].role = "action"
      /\ Finished(history[e].pair)
      /\ Completed(e)
      /\ OwnOutcome(e).kind = "raise" )
    => /\ Kinds(PairRecords(history[e].pair)) = <<"error">>
       /\ PairRecords(history[e].pair)[1] =
            OutcomeRecord("error", history[e].item, history[e].closure.func,
                          OwnOutcome(e), history[e].pair)
       /\ ~(pc = "raised" /\ Pair = history[e].pair)

\* C6: an exception of any class raised by a condition gives its pair exactly
\* one error record, never a policy or a timeout record, and the action is
\* not called.
C6_ConditionErrorIsError ==
  \A e \in Calls :
    ( /\ history[e].role = "condition"
      /\ Finished(history[e].pair)
      /\ Completed(e)
      /\ OwnOutcome(e).kind = "raise" )
    => /\ Kinds(PairRecords(history[e].pair)) = <<"error">>
       /\ \A f \in Calls : ~(f > e /\ history[f].pair = history[e].pair)

\* A step of the caller that is a loadRules call.
LoadStep == pc = "idle" /\ pc' = "idle"

HasUnknownName(file) ==
  \E x \in 1..Len(SequenceJson(file)) :
    SequenceJson(file)[x] \notin DOMAIN RulesJson

\* C7: loading a sequence file that names a rule missing from the rule map
\* ends in ValueError, processes no item and emits no log record.
C7_UnknownRuleFailsLoad ==
  [][ ( /\ LoadStep
        /\ loadFiles'[1] \in RuleMapFiles
        /\ loadFiles'[2] \in SequenceFiles
        /\ HasUnknownName(loadFiles'[2]) )
      => ( /\ loadResult' = "ValueError"
           /\ UNCHANGED <<items, i, k, j, log, history>> ) ]_vars

C7_Witness ==
  /\ pc = "idle"
  /\ loadFiles = <<"rules.json", "seq_unknown">>
  /\ loadResult = "ValueError"
  /\ log = <<>>

Strip(name) == IF StartsWithBang(name) THEN Negations[name] ELSE name

\* C8: after a loadRules call that returned, every action name and every
\* condition name (without its "!") of the loaded sequence is a function of
\* the rule module, respectively the condition module, and no closure that
\* sequence() calls turns out not to be callable.
C8_LoadedNamesCallable ==
  Loaded =>
    /\ \A x \in 1..Len(ruleSequence[1]) :
         LET rule == ruleSequence[1][x] IN
         /\ Attr(rules, Strip(rule.functionName)) = "function"
         /\ \A c \in 1..Len(rule.conditions) :
              Attr(conditions, Strip(rule.conditions[c].functionName))
                = "function"
    /\ \A e \in Calls : history[e].closure.callable

\* C9: a loadRules call that raises leaves rules, conditions and ruleSequence
\* all as they were, or leaves no rule sequence that sequence() could run.
C9_FailedLoadAllOrNothing ==
  [][ (LoadStep /\ loadResult' # "ok")
      => (UNCHANGED <<rules, conditions, ruleSequence>>
          \/ ruleSequence' = <<>>) ]_vars

\* The call event a return event answers.
CallOf(e) ==
  history[CHOOSE c \in Calls :
            c < e /\ \A d \in Calls : d < e => d <= c]

\* C10: a condition reference "!name" is bound to a predicate that calls the
\* function `name` with the configured options and the item, and hands back
\* the negation of what that function returns.
C10_NegationInverts ==
  \A e \in 1..Len(history) :
    (history[e].ev = "return" /\ CallOf(e).closure.inverted) =>
      LET c == CallOf(e)
          ref == ruleSequence[1][c.pair[2]].conditions[c.index]
      IN /\ StartsWithBang(ref.functionName)
         /\ c.closure.func = Negations[ref.functionName]
         /\ c.closure.options = ref.options
         /\ c.item = items[c.pair[1]]
         /\ history[e].value
              = ~Behaviour(Negations[ref.functionName], ref.options,
                           items[c.pair[1]]).value

C10_Witness ==
  /\ \E e \in 1..Len(history) :
       /\ history[e].ev = "return"
       /\ CallOf(e).closure.inverted
       /\ history[e].value
  /\ \E e \in 1..Len(history) :
       /\ history[e].ev = "return"
       /\ CallOf(e).closure.inverted
       /\ ~history[e].value

\* The definition the current (item, rule) iteration was bound from.
Definition == ruleSequence[1][k]

\* signal.alarm(timeout) has just run: no closure of the pair was called yet.
Armed == pc = "apply" /\ j = 0

HasTimeout(rule) == "timeout" \in DOMAIN rule

\* The pairs sequence() has bound a rule for so far.
Bound == {history[e].pair : e \in {r \in 1..Len(history) : history[r].ev = "rule"}}

\* C11: an absent timeout and an explicit timeout of 0 are treated
\* differently: without the key the default is armed; with timeout 0 the
\* deadline armed is not the default, is not missing, and the pair ends in
\* the timeout outcome.
C11_ZeroExpiresAtOnce ==
  /\ (Armed /\ ~HasTimeout(Definition)) => alarm = DEFAULT_RULE_TIMEOUT
  /\ (Armed /\ HasTimeout(Definition) /\ Definition.timeout = 0)
       => alarm # DEFAULT_RULE_TIMEOUT
  /\ \A p \in Bound :
       ( /\ Finished(p)
         /\ HasTimeout(ruleSequence[1][p[2]])
         /\ ruleSequence[1][p[2]].timeout = 0 )
       => Kinds(PairRecords(p)) = <<"timeout">>

\* C12: the timeout getRule returns and sequence() arms is the definition's
\* own "timeout" when the key is present and truthy, and
\* config["DEFAULT_RULE_TIMEOUT"] otherwise.
C12_EffectiveTimeout ==
  Armed =>
    LET expected == IF HasTimeout(Definition) /\ Definition.timeout # 0
                    THEN Definition.timeout
                    ELSE DEFAULT_RULE_TIMEOUT
    IN /\ bound[1].timeout = expected
       /\ alarm = expected

C12_Witness ==
  /\ Armed
  /\ HasTimeout(Definition)
  /\ Definition.timeout \notin {0, DEFAULT_RULE_TIMEOUT}
  /\ alarm = Definition.timeout
  /\ \E p \in Bound : Finished(p) /\ ~HasTimeout(ruleSequence[1][p[2]])

\* Control is outside the signal.alarm(timeout) ... signal.alarm(0) bracket:
\* between two rules, between two items, or back with the caller.
BetweenRules == pc \in {"idle", "forItems", "forRules", "returned", "raised"}

Alarms == {e \in 1..Len(history) : history[e].ev = "alarm"}

\* The pair of the last rule bound before event e.
ArmedFor(e) ==
  history[CHOOSE r \in 1..(e - 1) :
            /\ history[r].ev = "rule"
            /\ \A q \in (r + 1)..(e - 1) : history[q].ev # "rule"].pair

\* C13: no deadline is pending while the next rule is bound, the next item is
\* started or the caller runs; a deadline goes off at most once, and only
\* inside the iteration that armed it.
C13_AlarmCancelledBetweenRules ==
  /\ BetweenRules => alarm = 0
  /\ \A e \in Alarms :
       /\ history[e].pair = ArmedFor(e)
       /\ history[e].at \notin {"idle", "forItems", "forRules", "returned",
                                 "raised"}
       /\ \A f \in Alarms : history[f].pair = history[e].pair => f = e

\* A slow rule ran under a pending deadline that did not go off and was
\* cancelled before the next rule.
C13_Witness ==
  /\ pc = "forRules"
  /\ k >= 1
  /\ Elapsed
  /\ bound[1].timeout > 0
  /\ \A e \in Alarms : history[e].pair # Pair
  /\ alarm = 0

Reached(n) == IF n = Len(trail) THEN sdsFile.filename ELSE trail[n + 1].from

\* The calendar: the day after and the day before [year, day].
DayAfter(date) ==
  IF date.day < DaysInYear(date.year)
  THEN [year |-> date.year, day |-> date.day + 1]
  ELSE [year |-> date.year + 1, day |-> 1]

DayBefore(date) ==
  IF date.day > 1
  THEN [year |-> date.year, day |-> date.day - 1]
  ELSE [year |-> date.year - 1, day |-> DaysInYear(date.year - 1)]

DateOf(filename) ==
  [year |-> ParseInt(filename[6]), day |-> ParseInt(filename[7])]

\* C15: next (previous) names the same stream and quality on the following
\* (preceding) calendar day, as a four-digit year and a three-digit day,
\* rolling the year over after day 365 or 366 and before day 001; so next
\* then previous, and previous then next, give back the filename.
C15_AdjacentDayRoundTrip ==
  /\ \A n \in 1..Len(trail) :
       /\ SubSeq(Reached(n), 1, 5) = SubSeq(trail[n].from, 1, 5)
       /\ Len(Reached(n)) = 7
       /\ Len(Reached(n)[6]) = 4
       /\ Len(Reached(n)[7]) = 3
       /\ DateOf(Reached(n)) = IF trail[n].op = "next"
                                THEN DayAfter(DateOf(trail[n].from))
                                ELSE DayBefore(DateOf(trail[n].from))
  /\ \A n \in 1..(Len(trail) - 1) :
       trail[n].op # trail[n + 1].op => Reached(n + 1) = trail[n].from

\* previous from day 001 of 2001 reached day 366 of 2000, and next came back.
C15_Witness ==
  /\ Len(trail) = 2
  /\ trail[1].op = "previous"
  /\ trail[2].op = "next"
  /\ trail[1].from[6] = <<2, 0, 0, 1>>
  /\ trail[1].from[7] = <<0, 0, 1>>
  /\ trail[2].from[6] = <<2, 0, 0, 0>>
  /\ trail[2].from[7] = <<3, 6, 6>>
  /\ sdsFile.filename = trail[1].from

\* C16: a 'did not pass policy' record is logged for a pair only if one of
\* the rule's conditions handed back a false result, and never for a pair
\* whose action was called.
C16_PolicyOnlyFromFalseCondition ==
  \A n \in 1..Len(log) :
    log[n].kind = "policy" =>
      /\ \E e \in 1..Len(history) :
           /\ history[e].ev = "return"
           /\ history[e].pair = log[n].pair
           /\ ~history[e].value
      /\ \A e \in Calls :
           history[e].pair = log[n].pair => history[e].role # "action"

\* C17: the deadline covers only the action: it never goes off before the
\* action is called, so no condition is interrupted, and a 'Timeout calling
\* rule' record is logged only for a pair whose action was started.
C17_DeadlineCoversOnlyAction ==
  /\ \A e \in Alarms :
       \E c \in Calls :
         /\ c < e
         /\ history[c].pair = history[e].pair
         /\ history[c].role = "action"
  /\ \A n \in 1..Len(log) :
       log[n].kind = "timeout" =>
         \E c \in Calls :
           history[c].pair = log[n].pair /\ history[c].role = "action"

OutcomeLevels ==
  [kind \in {"success", "policy", "timeout", "error"} |->
     CASE kind = "success" -> "INFO"
       [] kind = "policy" -> "INFO"
       [] kind = "timeout" -> "WARNING"
       [] kind = "error" -> "ERROR"]

\* C18: every pair whose iteration is over has logged exactly one outcome
\* record, of kind success / policy (INFO), timeout (WARNING) or error
\* (ERROR), naming its item and its rule's function; the log as a whole is,
\* item by item, the 'Processing item' record followed by the outcome
\* records in rule order, with never two records for one pair.
C18_OneOutcomeRecordPerPair ==
  /\ \A p \in Bound :
       Finished(p) =>
         /\ Len(PairRecords(p)) = 1
         /\ PairRecords(p)[1].kind \in DOMAIN OutcomeLevels
         /\ PairRecords(p)[1].level = OutcomeLevels[PairRecords(p)[1].kind]
         /\ PairRecords(p)[1].item = items[p[1]]
         /\ PairRecords(p)[1].rule = Strip(ruleSequence[1][p[2]].functionName)
  /\ \A n \in 1..Len(log) :
       /\ log[n].kind = "processing" <=> log[n].pair[2] = 0
       /\ \A m \in (n + 1)..Len(log) : Before(log[n].pair, log[m].pair)

\* The reference (functionName, options) a call event was bound from.
Reference(c) ==
  IF c.role = "action"
  THEN ruleSequence[1][c.pair[2]]
  ELSE ruleSequence[1][c.pair[2]].conditions[c.index]

\* The event a step has added to the history.
Added == history'[Len(history')]

\* C19: no step of sequence(), getRule or bindOptions changes self.rules,
\* self.conditions, self.ruleSequence or a definition in it; every pair gets
\* a rule bound for it by a getRule call of its own; and every closure called
\* is the one its definition gives, whichever item it is called for.
C19_FreshRuleDefinitionsUntouched ==
  [][ /\ ~LoadStep => UNCHANGED <<rules, conditions, ruleSequence>>
      /\ (Len(history') > Len(history) /\ Added.ev = "rule")
           => (Added.pair \notin Bound /\ Added.pair = <<i', k'>>)
      /\ (Len(history') > Len(history) /\ Added.ev = "call")
           => /\ Added.pair \in Bound
              /\ Added.pair = <<i, k>>
              /\ Added.closure.func = Strip(Reference(Added).functionName)
              /\ Added.closure.options = Reference(Added).options ]_vars

\* The rule with options was bound and run for two items.
C19_Witness ==
  /\ pc = "returned"
  /\ loadFiles[2] = "seq_options"
  /\ Len(items) = 2
  /\ \E c, d \in Calls :
       /\ history[c].pair = <<1, 3>>
       /\ history[d].pair = <<2, 3>>
       /\ history[c].role = "action"
       /\ history[d].role = "action"
       /\ history[c].closure.options = "opt"

\* C20: whatever modules were handed to loadRules, the action of a bound rule
\* is the function named by the definition's literal functionName and its
\* result is never inverted; "!" is read on condition references only.
C20_NegationOnlyOnConditions ==
  /\ pc \in {"apply", "inCondition", "inAction", "log", "logged", "unwind"}
       => /\ ~Rule.call.inverted
          /\ Rule.call.func = Definition.functionName
  /\ \A c \in Calls :
       history[c].role = "action" =>
         /\ ~history[c].closure.inverted
         /\ history[c].closure.func
              = ruleSequence[1][history[c].pair[2]].functionName

\* The names of a sequence file, each looked up in the rule map, in order.
Looked(ruleSequenceFile) ==
  LET names == SequenceJson(ruleSequenceFile) IN
  [x \in 1..Len(names) |-> RulesJson[names[x]]]

\* C21: the pipeline in effect is always that of the last loadRules call that
\* returned: such a call leaves as ruleSequence the definitions its sequence
\* file names, in order and with repeats, and a loadRules call that raises,
\* like every other step, leaves ruleSequence as that call left it.
C21_LastSuccessfulLoadInEffect ==
  [][ IF LoadStep /\ loadResult' = "ok"
      THEN ruleSequence' = <<Looked(loadFiles'[2])>>
      ELSE UNCHANGED ruleSequence ]_vars

\* C22: a 'Timeout calling rule' record is logged for a pair only if the
\* alarm armed for that pair went off in it; an exception that the action or
\* a condition raised itself is never logged as a timeout.
C22_TimeoutOnlyFromAlarm ==
  \A n \in 1..Len(log) :
    log[n].kind = "timeout" =>
      \E e \in Alarms : history[e].pair = log[n].pair

\* The calendar date n days before `date`.
RECURSIVE Earlier(_, _)
Earlier(date, n) == IF n = 0 THEN date ELSE Earlier(DayBefore(date), n - 1)

\* The archive's filenames dated on one of `dates`.
Dated(dates) ==
  {archive[n] : n \in {m \in 1..Len(archive) : DateOf(archive[m]) \in dates}}

Collected == {collected[n].filename : n \in 1..Len(collected)}

\* C23: collectFromPastDays(N) returns, once each, the archive files of the N
\* days before the reference date and none of the reference date, and a
\* collectFromDate call returns the archive files of its date, whatever was
\* collected from the collector before.
C23_PastDaysCollected ==
  request.op # None =>
    /\ Cardinality(Collected) = Len(collected)
    /\ request.op = "collectFromPastDays"
         => Collected = Dated({Earlier(today, n) : n \in 1..request.arg})
    /\ request.op = "collectFromDate"
         => Collected = Dated({request.arg})

\* C24: for an integer PSD value x, __reduce gives a value in 0..255: with
\* v = x - 100 for infrasound and v = x otherwise, it is 0 when v < -255, 255
\* when v > 0 and v + 255 in between; and the result never decreases when the
\* value grows.
C24_ReduceWithinByte ==
  /\ (reduced # <<>> /\ psdValue % 2 = 0) =>
       LET x == psdValue \div 2
           v == IF isInfrasound THEN x - 100 ELSE x
       IN /\ reduced[1] \in 0..255
          /\ v < -255 => reduced[1] = 0
          /\ v > 0 => reduced[1] = 255
          /\ (v >= -255 /\ v <= 0) => reduced[1] = v + 255
  /\ (reduced # <<>> /\ reducedBefore # <<>>) => reducedBefore[1] <= reduced[1]

\* An infrasound value of 101 dB, shifted to 1, is capped at 255, as was the
\* value below it.
C24_Witness ==
  /\ isInfrasound
  /\ psdValue = 2 * 101
  /\ reduced = <<255>>
  /\ reducedBefore = <<255>>

====
